---- MODULE Spec2Model ----
(***************************************************************************)
(* Generation job lifecycle of the Telegram Suno bot: the job rows, the    *)
(* two balance pools and the balance-transaction log, as they are changed  *)
(* by do_generate / cb_regenerate (submission and the polling path),       *)
(* handle_suno_callback (the webhook path) and generation_watchdog.  One   *)
(* step of the model is one awaited database or provider call of the       *)
(* source: coroutines interleave at awaits only.                           *)
(***************************************************************************)
EXTENDS Integers, Sequences, FiniteSets, TLC

\* ---------------------------------------------------------------- bounds
MaxGens == 2
MaxWebhooks == 2
MaxPollWebhooks == 1
MaxInitFree == 1
MaxInitCredits == 1
MaxCredits == 2
MaxInitViolations == 2
MaxLag == 5
MaxVideoHooks == 3
MaxTbHooks == 2
MaxStarts == 2

\* config.free_credits_on_signup, by default
FREE_CREDITS_ON_SIGNUP == 2

\* ------------------------------------------------------- program constants
VIOLATION_LIMIT == 3

Users == {"u1"}
Gens == 1..MaxGens
VideoHooks == 1..MaxVideoHooks
\* video task ids of the provider: "v1" is returned by create_video to this
\* bot, "x" never is
VideoIds == {"v1", "x"}
OwnVideoIds == {"v1"}
TbHooks == 1..MaxTbHooks
\* order ids: "o1" is the order cb_buy_tbank creates, "o9" is no order of the bot
OrderIds == {"o1", "o9"}
TbStatuses == {"AUTHORIZED", "CONFIRMED", "REJECTED"}
\* config.tbank_password, and a password that is not it
Passwords == {"secret", "guess"}
tbank_password == "secret"
Starts == 1..MaxStarts
\* what follows /start: nothing, ref<id of u1>, ref<id of the sender>,
\* ref<an id that is no user>, ref<not a number>
StartArgs == {"none", "u1", "n1", "u9", "junk"}
Hooks == 1..MaxWebhooks

Terminal == {"complete", "error"}
NonTerminal == {"pending", "processing"}
\* what a webhook payload can carry: the code, data.callbackType ("other": any
\* further value, the absent one included) and data.data ("audio": tracks with
\* an audio url, "blank": tracks without one, "none": no tracks)
HookCodes == {200, 500}
HookTypes == {"complete", "error", "text", "first", "other"}
HookData == {"audio", "blank", "none"}

VARIABLES
    users,              \* table users: telegram_id -> row
    gens,               \* table generations: id -> row (status "none": no row yet)
    ledger,             \* balance-transaction log, in insertion order
    gh,                 \* per job: the do_generate / cb_regenerate run that creates it
    wh,                 \* the handle_suno_callback executions
    wd,                 \* generation_watchdog: the stuck list still to be written
    callback_base_url,  \* config.callback_base_url is set (webhook mode) or empty (polling)
    payments,           \* table payments, in insertion order
    hist                \* per job: history of what was done on its behalf (not program state)

\* one run of SunoClient.wait_for_completion: where it is and the seconds passed
\* since it read start_time
VARIABLES wfc

VARIABLES
    pending_video_tasks, \* _pending_video_tasks: the video task ids that have a context
    vh,                  \* per video callback request: the handle_video_callback run
    video_hist           \* per video task id: registered, and _deliver_video tasks started

\* per T-Bank notification request: the handle_tbank_notification run
VARIABLES tb

\* the cb_download run
VARIABLES dl

VARIABLES
    newcomer,   \* the users row of the account "n1", which has not used the bot yet
    st          \* per /start message of "n1": the cmd_start run

\* the tables and the handlers of the generation pipeline
core == <<users, gens, ledger, gh, wh, wd, callback_base_url, payments, hist>>

\* what the handlers of the generation pipeline leave alone
aside == <<wfc, pending_video_tasks, vh, video_hist, tb, dl, newcomer, st>>

\* what the steps of one handler outside the pipeline leave alone besides core:
\* the state of the others
notWait == <<pending_video_tasks, vh, video_hist, tb, dl, newcomer, st>>
notVideo == <<wfc, tb, dl, newcomer, st>>
notTbank == <<wfc, pending_video_tasks, vh, video_hist, dl, newcomer, st>>
notDownload == <<wfc, pending_video_tasks, vh, video_hist, tb, newcomer, st>>
notStart == <<wfc, pending_video_tasks, vh, video_hist, tb, dl>>

vars == <<users, gens, ledger, gh, wh, wd, callback_base_url, payments, hist, wfc,
          pending_video_tasks, vh, video_hist, tb, dl, newcomer, st>>

\* ------------------------------------------------------------ database.py
\* audio_urls: "none" (NULL), "audio" (urls of the tracks) or "blank" (a list of
\* empty strings)
NoGen ==
    [status |-> "none", user_id |-> "none", task |-> FALSE, audio_urls |-> "none",
     credits_spent |-> 0, error_message |-> "none", chat |-> FALSE, old |-> FALSE]

create_generation(gs, g, u) ==
    [gs EXCEPT ![g] = [NoGen EXCEPT !.status = "pending", !.user_id = u]]

update_generation_callback_info(gs, g) ==
    [gs EXCEPT ![g].chat = TRUE]

\* kw: the keyword arguments present in the call
update_generation_status(gs, g, status, kw) ==
    [gs EXCEPT ![g] =
        [@ EXCEPT
            !.status = status,
            !.task = IF "suno_song_ids" \in DOMAIN kw THEN kw.suno_song_ids ELSE @,
            !.audio_urls = IF "audio_urls" \in DOMAIN kw THEN kw.audio_urls ELSE @,
            !.credits_spent = IF "credits_spent" \in DOMAIN kw THEN kw.credits_spent ELSE @,
            !.error_message = IF "error_message" \in DOMAIN kw THEN kw.error_message ELSE @]]

\* the lookup by row id, whatever suno_song_ids holds
get_generation_by_task_id_any_row(gs, t) ==
    IF t \in Gens /\ gs[t].status # "none" THEN t ELSE 0

get_generation_by_task_id(gs, t) ==
    IF t \in Gens /\ gs[t].status # "none" /\ gs[t].task THEN t ELSE 0

\* INSERT INTO payments (..., status) VALUES (..., 'completed') and
\* UPDATE users SET credits = credits + $2, on one connection
create_payment(us, ps, u, credits) ==
    [us |-> [us EXCEPT ![u].credits = @ + credits],
     ps |-> Append(ps, [user_id |-> u, credits_purchased |-> credits,
                        status |-> "completed", payment_type |-> "stars",
                        order_id |-> "none"])]

\* INSERT INTO payments (..., payment_type, status) VALUES (..., 'tbank', 'pending')
create_tbank_payment(ps, u, order_id, credits) ==
    Append(ps, [user_id |-> u, credits_purchased |-> credits,
                status |-> "pending", payment_type |-> "tbank",
                order_id |-> order_id])

\* the row complete_tbank_payment selects: a pending T-Bank payment of the
\* order (its index, 0: none)
PendingTbankPayment(ps, order_id) ==
    LET S == {i \in DOMAIN ps : /\ ps[i].order_id = order_id
                                /\ ps[i].payment_type = "tbank"
                                /\ ps[i].status = "pending"}
    IN  IF S = {} THEN 0 ELSE CHOOSE i \in S : \A j \in S : i <= j

\* the statement with SET credits = $2
update_user_credits_assign(us, u, delta) ==
    [us EXCEPT ![u].credits = delta]

update_user_credits(us, u, delta) ==
    [us EXCEPT ![u].credits = @ + delta]

use_free_generation(us, u) ==
    IF us[u].free_generations_left > 0
    THEN [us EXCEPT ![u].free_generations_left = @ - 1]
    ELSE us

\* the counter raised by two in one call
increment_content_violations_by_two(us, u) ==
    [us EXCEPT ![u].content_violations = @ + 2,
               ![u].is_blocked = IF us[u].content_violations + 2 >= VIOLATION_LIMIT
                                 THEN TRUE ELSE @]

increment_content_violations(us, u) ==
    [us EXCEPT ![u].content_violations = @ + 1,
               ![u].is_blocked = IF us[u].content_violations + 1 >= VIOLATION_LIMIT
                                 THEN TRUE ELSE @]

\* mark_user_blocked / mark_user_unblocked: is_blocked is the users table's
\* only block column
mark_user_blocked(us, u) ==
    [us EXCEPT ![u].is_blocked = TRUE]

mark_user_unblocked(us, u) ==
    [us EXCEPT ![u].is_blocked = FALSE]

log_balance_transaction(l, u, delta, tag, g) ==
    Append(l, [user |-> u, delta |-> delta, tag |-> tag, gen |-> g])

RECURSIVE StuckFrom(_, _)
\* the selection with status = 'processing' in place of IN ('processing', 'pending')
StuckFromProcessingOnly(gs, g) ==
    IF g > MaxGens THEN <<>>
    ELSE IF gs[g].status = "processing" /\ gs[g].old
         THEN <<[id |-> g, chat |-> gs[g].chat]>> \o StuckFrom(gs, g + 1)
         ELSE StuckFrom(gs, g + 1)

StuckFrom(gs, g) ==
    IF g > MaxGens THEN <<>>
    ELSE IF gs[g].status \in {"processing", "pending"} /\ gs[g].old
         THEN <<[id |-> g, chat |-> gs[g].chat]>> \o StuckFrom(gs, g + 1)
         ELSE StuckFrom(gs, g + 1)

\* created_at of the user's rows of today moved back one day, which puts it
\* behind NOW() - timeout (the rows of the model are all of today)
reset_user_daily_generations(gs, u) ==
    [g \in Gens |-> IF gs[g].status # "none" /\ gs[g].user_id = u
                    THEN [gs[g] EXCEPT !.old = TRUE]
                    ELSE gs[g]]

\* rows in a non-terminal status older than the timeout, oldest (lowest id) first
get_stuck_generations(gs) == StuckFrom(gs, 1)

\* ---------------------------------------------------- handlers/generation.py
\* the user exists and is not blocked; config.max_generations_per_user_per_day
\* and config.max_generations_per_hour are taken above MaxGens
check_limits(us, u) == ~us[u].is_blocked

\* has_free of check_credits.  fails_gate: a gate is configured and the user
\* does not pass it (account younger than config.min_account_age_hours, or id
\* above config.min_telegram_user_id); both are 0, gates off, by default
has_free(us, u) ==
    us[u].free_generations_left > 0 /\ ~us[u].fails_gate

\* the test with credits >= 0 in place of credits > 0
check_credits_nonnegative(us, u) ==
    us[u].credits >= 0 \/ has_free(us, u)

check_credits(us, u) ==
    us[u].credits > 0 \/ has_free(us, u)

\* -------------------------------------------------------------------- Init
IdleGh == [pc |-> "idle", kind |-> "none", user_free |-> FALSE]
\* chat: gen.get("callback_chat_id") of the row read; is_free: the tier decided
\* from the user row; seen_timeout, after_done: what the read found (history)
IdleWh ==
    [pc |-> "idle", kind |-> "none", gen |-> 0, chat |-> FALSE, is_free |-> FALSE,
     seen_timeout |-> FALSE, after_done |-> FALSE]
\* a request that has returned: "done" after writing the job row, "acked" after
\* acknowledging only; its payload kind and the job it found (0: none)
DoneWh(pc, kind, g) == [IdleWh EXCEPT !.pc = pc, !.kind = kind, !.gen = g]
NoHist ==
    [submitted |-> FALSE, tier |-> "none", pool |-> "none", free_only |-> FALSE,
     debits |-> 0, completes |-> 0, deliveries |-> 0, notified |-> 0,
     full_audio |-> FALSE, provider |-> "none", submits |-> 0, aged |-> FALSE]

\* the log of a user who signed up with config.free_credits_on_signup = f
\* (cmd_start logs 'signup_bonus' when it is above 0) and was then granted c
\* credits by the admin (credit_user logs 'admin')
RECURSIVE SeedLedger(_, _)
SeedLedger(us, S) ==
    IF S = {} THEN <<>>
    ELSE LET u == CHOOSE x \in S : TRUE
         IN  (IF us[u].free_generations_left > 0
              THEN log_balance_transaction(<<>>, u, us[u].free_generations_left,
                                           "signup_bonus", 0)
              ELSE <<>>)
             \o (IF us[u].credits > 0
                 THEN log_balance_transaction(<<>>, u, us[u].credits, "admin", 0)
                 ELSE <<>>)
             \o SeedLedger(us, S \ {u})

\* a handle_video_callback run that has not begun
IdleVh == [pc |-> "idle", task_id |-> "", code |-> 0, video_url |-> FALSE]

\* a handle_tbank_notification run that has not begun; payment: the row
\* complete_tbank_payment selected; marked, credited: its two updates done
IdleTb == [pc |-> "idle", Status |-> "", OrderId |-> "", verified |-> FALSE,
           payment |-> 0, marked |-> FALSE, credited |-> FALSE]

\* a cb_download run that has not begun; user_free: the user row it read had
\* free_generations_left > 0; pool: the pool its debit took the unit from
IdleDl == [pc |-> "idle", user |-> "none", gen |-> 0, user_free |-> FALSE,
           pool |-> "none"]

\* a cmd_start run that has not begun; granted: it has added the referral bonus
IdleSt == [pc |-> "idle", referred_by |-> "none", is_new |-> FALSE, found |-> FALSE,
           granted |-> FALSE]

\* V: the content_violations counters the users start with, below the
\* threshold and so with is_blocked still FALSE; G: whether they fail a
\* configured free-generation gate
\* F: the free generations they start with
InitWithFree(V, G, F) ==
    /\ users \in [Users -> [credits : 0..MaxInitCredits,
                            free_generations_left : F,
                            content_violations : V,
                            is_blocked : {FALSE},
                            fails_gate : G]]
    /\ gens = [g \in Gens |-> NoGen]
    /\ ledger = SeedLedger(users, Users)
    /\ gh = [g \in Gens |-> IdleGh]
    /\ wh = [h \in Hooks |-> IdleWh]
    /\ wd = <<>>
    /\ callback_base_url \in BOOLEAN
    /\ payments = <<>>
    /\ hist = [g \in Gens |-> NoHist]
    /\ wfc = [pc |-> "start", elapsed |-> 0]
    /\ pending_video_tasks = {}
    /\ newcomer = [exists |-> FALSE, referred_by |-> "none"]
    /\ st = [s \in Starts |-> IdleSt]
    /\ dl = IdleDl
    /\ tb = [n \in TbHooks |-> IdleTb]
    /\ vh = [h \in VideoHooks |-> IdleVh]
    /\ video_hist = [v \in VideoIds |-> [registered |-> FALSE, started |-> 0]]

InitWithGate(V, G) == InitWithFree(V, G, 0..MaxInitFree)

\* the default configuration: no gate
InitWith(V) == InitWithGate(V, {FALSE})

Init == InitWith({0})

\* the deployment with a callback URL configured, and the one without
InitWebhook == Init /\ callback_base_url
InitPoll == Init /\ ~callback_base_url

Owner(g) == gens[g].user_id

\* ------------------------------------------- do_generate / cb_regenerate
\* check_limits (cb_regenerate only), check_credits, create_generation
Start(g, u, kind) ==
    /\ gh[g].pc = "idle"
    /\ (IF g = 1 THEN TRUE ELSE gens[g - 1].status # "none")
    /\ kind = "cb_regenerate" =>
            /\ \E g0 \in Gens : gens[g0].status # "none"
            /\ check_limits(users, u)
    /\ check_credits(users, u)
    /\ gens' = create_generation(gens, g, u)
    /\ gh' = [gh EXCEPT ![g] = [pc |-> "created", kind |-> kind,
                                user_free |-> users[u].free_generations_left > 0]]
    /\ hist' = [hist EXCEPT ![g].tier = IF has_free(users, u) THEN "free" ELSE "paid"]
    /\ UNCHANGED <<users, ledger, wh, wd, callback_base_url, payments, aside>>

\* generate called again when the task id has not been stored yet
SubmitAgain(g) ==
    /\ gh[g].pc \in {"created", "submitted"}
    /\ hist[g].submits < 2
    /\ gh' = [gh EXCEPT ![g].pc = "submitted"]
    /\ hist' = [hist EXCEPT ![g].submitted = TRUE, ![g].provider = "PENDING",
                            ![g].submits = @ + 1]
    /\ UNCHANGED <<users, gens, ledger, wh, wd, callback_base_url, payments, aside>>

\* SunoClient.generate returns a task id
Submit(g) ==
    /\ gh[g].pc = "created"
    /\ gh' = [gh EXCEPT ![g].pc = "submitted"]
    /\ hist' = [hist EXCEPT ![g].submitted = TRUE, ![g].provider = "PENDING",
                            ![g].submits = @ + 1]
    /\ UNCHANGED <<users, gens, ledger, wh, wd, callback_base_url, payments, aside>>

\* update_generation_status(gen_id, "processing", suno_song_ids=[task_id])
WriteProcessing(g) ==
    /\ gh[g].pc = "submitted"
    /\ gens' = update_generation_status(gens, g, "processing", [suno_song_ids |-> TRUE])
    /\ gh' = [gh EXCEPT ![g].pc = IF callback_base_url THEN "cbinfo" ELSE "polling"]
    /\ UNCHANGED <<users, ledger, wh, wd, callback_base_url, hist, payments, aside>>

\* webhook mode: update_generation_callback_info, then the handler returns
WriteCallbackInfo(g) ==
    /\ gh[g].pc = "cbinfo"
    /\ gens' = update_generation_callback_info(gens, g)
    /\ gh' = [gh EXCEPT ![g].pc = "done", ![g].user_free = FALSE]
    /\ UNCHANGED <<users, ledger, wh, wd, callback_base_url, hist, payments, aside>>

\* the balance decrement of a completion, and its history: whether a pool was
\* decremented, which one, and whether the owner then had free generations only
Debit(us, u, free) ==
    IF free THEN use_free_generation(us, u) ELSE update_user_credits(us, u, -1)

DebitHist(h, g, us, u, free) ==
    [h EXCEPT ![g].debits = IF Debit(us, u, free) # us THEN @ + 1 ELSE @,
              ![g].pool = IF Debit(us, u, free) = us THEN @
                          ELSE IF free THEN "free" ELSE "paid",
              ![g].free_only = us[u].credits = 0 /\ has_free(us, u)]

\* ContentPolicyError from generate or from wait_for_completion:
\* increment_content_violations, then the error write
RaiseContentPolicy(g) ==
    /\ gh[g].pc \in {"created", "polling"}
    /\ users' = increment_content_violations(users, Owner(g))
    /\ gh' = [gh EXCEPT ![g].pc = "cp_err"]
    /\ UNCHANGED <<gens, ledger, wh, wd, callback_base_url, hist, payments, aside>>

WriteContentPolicy(g) ==
    /\ gh[g].pc = "cp_err"
    /\ gens' = update_generation_status(gens, g, "error", [error_message |-> "content_policy"])
    /\ gh' = [gh EXCEPT ![g].pc = "failed", ![g].user_free = FALSE]
    /\ UNCHANGED <<users, ledger, wh, wd, callback_base_url, hist, payments, aside>>

\* SunoApiError from generate or from wait_for_completion (failed task, empty
\* sunoData, poll timeout): update_generation_status(gen_id, "error", str(e))
RaiseApiError(g) ==
    /\ gh[g].pc \in {"created", "polling"}
    /\ gens' = update_generation_status(gens, g, "error", [error_message |-> "api_error"])
    /\ gh' = [gh EXCEPT ![g].pc = "failed", ![g].user_free = FALSE]
    /\ UNCHANGED <<users, ledger, wh, wd, callback_base_url, hist, payments, aside>>

\* any other exception out of generate or wait_for_completion (a transport
\* error in get_task_status, a body that is not JSON): the generic except
\* clause; do_generate writes "error" with str(e), cb_regenerate only edits
\* the status message
RaiseException(g) ==
    /\ gh[g].pc \in {"created", "polling"}
    /\ gens' = IF gh[g].kind = "do_generate"
               THEN update_generation_status(gens, g, "error", [error_message |-> "exception"])
               ELSE gens
    /\ gh' = [gh EXCEPT ![g].pc = "failed", ![g].user_free = FALSE]
    /\ UNCHANGED <<users, ledger, wh, wd, callback_base_url, hist, payments, aside>>

\* wait_for_completion returns the songs.  do_generate debits at once from the
\* user row it read in check_credits; cb_regenerate re-reads the user first.
\* (the decrement and its log_balance_transaction entry are taken as one step:
\* nothing reads the log in between)
PollSuccess(g) ==
    /\ gh[g].pc = "polling"
    /\ IF gh[g].kind = "do_generate"
       THEN /\ users' = Debit(users, Owner(g), gh[g].user_free)
            /\ ledger' = log_balance_transaction(ledger, Owner(g), -1, "generation", g)
            /\ hist' = DebitHist(hist, g, users, Owner(g), gh[g].user_free)
            /\ gh' = [gh EXCEPT ![g].pc = "logged"]
       ELSE /\ gh' = [gh EXCEPT ![g].pc = "got_user",
                                ![g].user_free = users[Owner(g)].free_generations_left > 0]
            /\ UNCHANGED <<users, ledger, hist>>
    /\ UNCHANGED <<gens, wh, wd, callback_base_url, payments, aside>>

RegenDebit(g) ==
    /\ gh[g].pc = "got_user"
    /\ users' = Debit(users, Owner(g), gh[g].user_free)
    /\ ledger' = log_balance_transaction(ledger, Owner(g), -1, "generation", g)
    /\ hist' = DebitHist(hist, g, users, Owner(g), gh[g].user_free)
    /\ gh' = [gh EXCEPT ![g].pc = "logged"]
    /\ UNCHANGED <<gens, wh, wd, callback_base_url, payments, aside>>

\* update_last_generation, update_generation_status(..., "complete", credits_spent=1)
PollWriteComplete(g) ==
    /\ gh[g].pc = "logged"
    /\ gens' = update_generation_status(gens, g, "complete",
                    [audio_urls |-> "audio", credits_spent |-> 1])
    /\ hist' = [hist EXCEPT ![g].completes = @ + 1]
    /\ gh' = [gh EXCEPT ![g].pc = "deliver", ![g].user_free = FALSE]
    /\ UNCHANGED <<users, ledger, wh, wd, callback_base_url, payments, aside>>

\* the inline delivery: each track is fetched and sent whole with answer_audio,
\* whatever pool was debited; a send that raises outside the per-track try
\* reaches the generic except clause: do_generate writes "error", cb_regenerate
\* writes nothing
PollDeliver(g, ok) ==
    /\ gh[g].pc = "deliver"
    /\ gh' = [gh EXCEPT ![g].pc = IF ok THEN "done" ELSE "failed"]
    /\ hist' = [hist EXCEPT ![g].deliveries = IF ok THEN @ + 1 ELSE @,
                            ![g].full_audio = IF ok THEN TRUE ELSE @]
    /\ gens' = IF ~ok /\ gh[g].kind = "do_generate"
               THEN update_generation_status(gens, g, "error", [error_message |-> "exception"])
               ELSE gens
    /\ UNCHANGED <<users, ledger, wh, wd, callback_base_url, payments, aside>>

\* --------------------------------------------------------- suno_api.py
\* what one round of wait_for_completion makes of the status it polled and of
\* response.sunoData ("none": empty): return the tracks ("Complete"), raise
\* ("Error"), or sleep and poll again ("Pending")
wait_for_completion(status, data) ==
    IF status \in {"SUCCESS", "FIRST_SUCCESS"}
    THEN (IF data # "none" THEN "Complete" ELSE "Error")
    ELSE IF status = "SENSITIVE_WORD_ERROR" THEN "Error"
    ELSE IF status \in {"CREATE_TASK_FAILED", "GENERATE_AUDIO_FAILED", "CALLBACK_EXCEPTION"}
         THEN "Error"
    ELSE "Pending"

\* the defaults of wait_for_completion and its initial wait, in seconds
TIMEOUT == 300
POLL_INTERVAL == 10
INITIAL_WAIT == 5

\* the statuses a poll can answer with: the provider's, the other failures the
\* loop names, one it does not know, and a reply without a status
PollReplies ==
    {"PENDING", "FIRST_SUCCESS", "SUCCESS", "SENSITIVE_WORD_ERROR",
     "CREATE_TASK_FAILED", "GENERATE_AUDIO_FAILED", "CALLBACK_EXCEPTION",
     "UNKNOWN", ""}

\* seconds an await can take beyond what it was asked for: none, or MaxLag
Lags == {0, MaxLag}

\* where a run of wait_for_completion has ended: the tracks returned,
\* ContentPolicyError raised, SunoApiError (or the client's error) raised, the
\* timeout SunoApiError raised
WaitEnded == {"returned", "content_policy", "api_error", "timeout"}

\* the loop condition, tested without an await once a sleep returns
WaitTest(elapsed) == IF elapsed < TIMEOUT THEN "poll" ELSE "timeout"

\* start_time is read, the initial sleep returns, the loop condition is tested
WaitInitialSleep(lag) ==
    /\ wfc.pc = "start"
    /\ wfc' = [pc |-> WaitTest(INITIAL_WAIT + lag), elapsed |-> INITIAL_WAIT + lag]
    /\ UNCHANGED <<core, notWait>>

\* asyncio.sleep(poll_interval) returns and the loop condition is tested; the
\* variant returns without the clock having moved
WaitSleepFrozen(lag) ==
    /\ wfc.pc = "sleep"
    /\ wfc' = [pc |-> WaitTest(wfc.elapsed), elapsed |-> wfc.elapsed]
    /\ UNCHANGED <<core, notWait>>

WaitSleep(lag) ==
    /\ wfc.pc = "sleep"
    /\ wfc' = [pc |-> WaitTest(wfc.elapsed + POLL_INTERVAL + lag),
               elapsed |-> wfc.elapsed + POLL_INTERVAL + lag]
    /\ UNCHANGED <<core, notWait>>

\* get_task_status answers, and the round returns, raises or goes to sleep
WaitPoll(status, data, lag) ==
    /\ wfc.pc = "poll"
    /\ wfc' = [pc |-> (IF wait_for_completion(status, data) = "Complete" THEN "returned"
                       ELSE IF wait_for_completion(status, data) = "Pending" THEN "sleep"
                       ELSE IF status = "SENSITIVE_WORD_ERROR" THEN "content_policy"
                       ELSE "api_error"),
               elapsed |-> wfc.elapsed + lag]
    /\ UNCHANGED <<core, notWait>>

\* get_task_status raises: a reply with a code other than 200, an HTTP error
\* status, or an error of the HTTP client
WaitPollRaises(lag) ==
    /\ wfc.pc = "poll"
    /\ wfc' = [pc |-> "api_error", elapsed |-> wfc.elapsed + lag]
    /\ UNCHANGED <<core, notWait>>

\* ----------------------------------------- handlers/callback.py (webhook)
\* only "text" taken as intermediate
ClassifyTextOnly(code, callback_type, data) ==
    IF callback_type = "text" THEN "intermediate"
    ELSE IF code = 200 /\ callback_type = "complete"
         THEN (IF data = "none" THEN "empty"
               ELSE IF data = "blank" THEN "blank" ELSE "success")
    ELSE IF code # 200 \/ callback_type = "error" THEN "error"
    ELSE "unhandled"

\* the branch of handle_suno_callback a payload with a task id takes once the
\* job is found and not complete
Classify(code, callback_type, data) ==
    IF callback_type \in {"text", "first"} THEN "intermediate"
    ELSE IF code = 200 /\ callback_type = "complete"
         THEN (IF data = "none" THEN "empty"
               ELSE IF data = "blank" THEN "blank" ELSE "success")
    ELSE IF code # 200 \/ callback_type = "error" THEN "error"
    ELSE "unhandled"

\* what handle_suno_callback makes of a payload for a job it finds: complete
\* it, set it to error, or acknowledge and leave it as it is
callback_outcome(code, callback_type, data) ==
    LET kind == Classify(code, callback_type, data)
    IN  IF kind \in {"success", "blank"} THEN "Complete"
        ELSE IF kind = "error" THEN "Error"
        ELSE "Pending"

\* a success run for the same job that has already returned after writing "complete"
FinishedSuccess(g) ==
    \E h \in Hooks : wh[h].pc = "done" /\ wh[h].kind = "success" /\ wh[h].gen = g

\* the request up to its first database write: the payload checks, the lookup
\* get_generation_by_task_id and the idempotency check on the row just read.
\* t: the task id of the payload, 0 for an empty one (the provider knows a
\* job's id once generate returned)
HookReceive(h, t, code, callback_type, data) ==
    /\ wh[h].pc = "idle"
    /\ h <= (IF callback_base_url THEN MaxWebhooks ELSE MaxPollWebhooks)
    /\ (IF h = 1 THEN TRUE ELSE wh[h - 1].pc # "idle")
    /\ (IF t = 0 THEN TRUE ELSE hist[t].submitted)
    /\ LET kind == Classify(code, callback_type, data)
           g == IF kind = "intermediate" THEN 0 ELSE get_generation_by_task_id(gens, t)
           ack == \/ g = 0
                  \/ gens[g].status = "complete"
                  \/ kind \in {"empty", "unhandled"}
       IN  wh' = [wh EXCEPT ![h] =
                    IF ack THEN DoneWh("acked", kind, g)
                    ELSE [pc |-> "got_gen", kind |-> kind, gen |-> g,
                          chat |-> gens[g].chat,
                          is_free |-> FALSE,
                          seen_timeout |-> /\ gens[g].status = "error"
                                           /\ gens[g].error_message = "timeout",
                          after_done |-> kind = "success" /\ FinishedSuccess(g)]]
    /\ UNCHANGED <<users, gens, ledger, gh, wd, callback_base_url, hist, payments, aside>>

\* user = await db.get_user(user_id); is_free = user["free_generations_left"] > 0
HookGetUser(h) ==
    /\ wh[h].pc = "got_gen"
    /\ wh[h].kind \in {"success", "blank"}
    /\ wh' = [wh EXCEPT ![h].pc = "got_user",
                        ![h].is_free = users[Owner(wh[h].gen)].free_generations_left > 0]
    /\ UNCHANGED <<users, gens, ledger, gh, wd, callback_base_url, hist, payments, aside>>

\* use_free_generation or update_user_credits(user_id, -1), and the
\* log_balance_transaction entry (one step: nothing reads the log in between)
HookDebit(h) ==
    /\ wh[h].pc = "got_user"
    /\ users' = Debit(users, Owner(wh[h].gen), wh[h].is_free)
    /\ ledger' = log_balance_transaction(ledger, Owner(wh[h].gen), -1,
                    IF wh[h].is_free THEN "free_generation" ELSE "generation", wh[h].gen)
    /\ hist' = DebitHist(hist, wh[h].gen, users, Owner(wh[h].gen), wh[h].is_free)
    /\ wh' = [wh EXCEPT ![h].pc = "logged"]
    /\ UNCHANGED <<gens, gh, wd, callback_base_url, payments, aside>>

\* update_last_generation, update_generation_status(gen_id, "complete", ...),
\* unlock_generation for a paid job, and the delivery task when the row read at
\* the start carried a callback chat id
HookWriteComplete(h) ==
    /\ wh[h].pc = "logged"
    /\ gens' = update_generation_status(gens, wh[h].gen, "complete",
                    [audio_urls |-> IF wh[h].kind = "blank" THEN "blank" ELSE "audio",
                     credits_spent |-> IF wh[h].is_free THEN 0 ELSE 1])
    /\ \E preview_ok \in (IF wh[h].chat /\ wh[h].is_free THEN BOOLEAN ELSE {TRUE}) :
          hist' = [hist EXCEPT ![wh[h].gen].completes = @ + 1,
                               ![wh[h].gen].deliveries = IF wh[h].chat THEN @ + 1 ELSE @,
                               ![wh[h].gen].full_audio =
                                    IF wh[h].chat /\ (~wh[h].is_free \/ ~preview_ok)
                                    THEN TRUE ELSE @]
    /\ wh' = [wh EXCEPT ![h] = DoneWh("done", wh[h].kind, wh[h].gen)]
    /\ UNCHANGED <<users, ledger, gh, wd, callback_base_url, payments, aside>>

\* the error branch debiting the owner as the success branch does
HookWriteErrorDebiting(h) ==
    /\ wh[h].pc = "got_gen"
    /\ wh[h].kind = "error"
    /\ gens' = update_generation_status(gens, wh[h].gen, "error",
                    [error_message |-> "provider_error"])
    /\ users' = update_user_credits(users, Owner(wh[h].gen), -1)
    /\ wh' = [wh EXCEPT ![h] = DoneWh("done", wh[h].kind, wh[h].gen)]
    /\ UNCHANGED <<ledger, gh, wd, callback_base_url, hist, payments, aside>>

\* code != 200 or callbackType "error":
\* update_generation_status(gen_id, "error", error_message=msg)
HookWriteError(h) ==
    /\ wh[h].pc = "got_gen"
    /\ wh[h].kind = "error"
    /\ gens' = update_generation_status(gens, wh[h].gen, "error",
                    [error_message |-> "provider_error"])
    /\ wh' = [wh EXCEPT ![h] = DoneWh("done", wh[h].kind, wh[h].gen)]
    /\ UNCHANGED <<users, ledger, gh, wd, callback_base_url, hist, payments, aside>>

\* ------------------------------------------------- main.py (watchdog)
\* the task run_admin starts once the web app is up (config.admin_token set):
\* stuck = await db.get_stuck_generations(...), when the previous sweep is over
WatchdogSweep ==
    /\ wd = <<>>
    /\ get_stuck_generations(gens) # <<>>
    /\ wd' = get_stuck_generations(gens)
    /\ UNCHANGED <<users, gens, ledger, gh, wh, callback_base_url, hist, payments, aside>>

\* for the next row of the list: the error write, then the notification to the
\* chat id the list carried
WatchdogMark ==
    /\ wd # <<>>
    /\ gens' = update_generation_status(gens, Head(wd).id, "error",
                    [error_message |-> "timeout"])
    /\ hist' = [hist EXCEPT ![Head(wd).id].notified = IF Head(wd).chat THEN @ + 1 ELSE @]
    /\ wd' = Tail(wd)
    /\ UNCHANGED <<users, ledger, gh, wh, callback_base_url, payments, aside>>

\* ------------------------------------- handlers/payments.py, admin.py
\* on_successful_payment, credit package branch: create_payment records the
\* payment and adds the credits (a package of 1); the handler then reads the
\* balance and answers
StarsPurchase(u) ==
    /\ users[u].credits < MaxCredits
    /\ users' = create_payment(users, payments, u, 1).us
    /\ payments' = create_payment(users, payments, u, 1).ps
    /\ UNCHANGED <<gens, ledger, gh, wh, wd, callback_base_url, hist, aside>>

\* credit_user with amount 1: update_user_credits, then its log entry (one
\* step: nothing reads the log in between)
AdminCredit(u) ==
    /\ users[u].credits < MaxCredits
    /\ users' = update_user_credits(users, u, 1)
    /\ ledger' = log_balance_transaction(ledger, u, 1, "admin", 0)
    /\ UNCHANGED <<gens, gh, wh, wd, callback_base_url, hist, payments, aside>>

\* ------------------------------------------------- handlers/common.py
\* on_my_chat_member: the user blocks the bot or leaves ("kicked", "left"), or
\* comes back ("member")
ChatMemberUpdate(u, new_status) ==
    /\ users' = IF new_status \in {"kicked", "left"} THEN mark_user_blocked(users, u)
                ELSE IF new_status = "member" THEN mark_user_unblocked(users, u)
                ELSE users
    /\ users' # users
    /\ UNCHANGED <<gens, ledger, gh, wh, wd, callback_base_url, hist, payments, aside>>

\* ------------------------------------------------------------ environment
\* the provider's states of a task, by the status its record-info endpoint
\* reports: accepted, first track ready, all tracks ready, failed, rejected
\* for a sensitive word
ProviderStatuses ==
    {"PENDING", "FIRST_SUCCESS", "SUCCESS", "GENERATE_AUDIO_FAILED", "SENSITIVE_WORD_ERROR"}

\* the callback the provider posts on entering a state
CallbackOf(status) ==
    IF status = "FIRST_SUCCESS" THEN [code |-> 200, callback_type |-> "first"]
    ELSE IF status = "SUCCESS" THEN [code |-> 200, callback_type |-> "complete"]
    ELSE [code |-> 500, callback_type |-> "error"]

\* the provider works on an accepted task
ProviderAdvance(g, status) ==
    /\ hist[g].provider = "PENDING" \/ (hist[g].provider = "FIRST_SUCCESS" /\ status = "SUCCESS")
    /\ status # "PENDING"
    /\ hist' = [hist EXCEPT ![g].provider = status]
    /\ UNCHANGED <<users, gens, ledger, gh, wh, wd, callback_base_url, payments, aside>>

\* time passes: the row's created_at falls behind NOW() - timeout, if it has
\* not been moved there already (hist.aged: the row was created longer ago than
\* the timeout)
Age(g) ==
    /\ gens[g].status \in NonTerminal
    /\ ~hist[g].aged
    /\ gens' = [gens EXCEPT ![g].old = TRUE]
    /\ hist' = [hist EXCEPT ![g].aged = TRUE]
    /\ UNCHANGED <<users, ledger, gh, wh, wd, callback_base_url, payments, aside>>

\* one round of the poll loop on the provider's present state
PollObserve(g) ==
    /\ gh[g].pc = "polling"
    /\ LET r == wait_for_completion(hist[g].provider, "audio")
       IN  IF r = "Complete" THEN PollSuccess(g)
           ELSE IF r = "Error"
                THEN (IF hist[g].provider = "SENSITIVE_WORD_ERROR"
                      THEN RaiseContentPolicy(g) ELSE RaiseApiError(g))
           ELSE FALSE

\* the callback for the provider's present state arrives
HookObserve(h, g) ==
    /\ hist[g].provider \notin {"none", "PENDING"}
    /\ HookReceive(h, g, CallbackOf(hist[g].provider).code,
                   CallbackOf(hist[g].provider).callback_type, "audio")

\* ------------------------------------------------------------------- Next
SubmitStep ==
    \E g \in Gens :
        \/ \E u \in Users, kind \in {"do_generate", "cb_regenerate"} : Start(g, u, kind)
        \/ Submit(g)
        \/ WriteProcessing(g)
        \/ RaiseContentPolicy(g)
        \/ WriteContentPolicy(g)
        \/ RaiseApiError(g)

PollStep ==
    \E g \in Gens :
        \/ PollSuccess(g)
        \/ RegenDebit(g)
        \/ PollWriteComplete(g)
        \/ \E ok \in BOOLEAN : PollDeliver(g, ok)

\* the provider's usual callbacks: a track is ready ("first"), all tracks are
\* complete (with tracks or with none), the task failed
HookStep ==
    \E h \in Hooks :
        \/ \E t \in Gens, code \in HookCodes, callback_type \in {"complete", "error", "first"},
              data \in {"audio", "none"} : HookReceive(h, t, code, callback_type, data)
        \/ HookGetUser(h)
        \/ HookDebit(h)
        \/ HookWriteComplete(h)
        \/ HookWriteError(h)

\* every payload the endpoint accepts
AnyHookStep ==
    \E h \in Hooks :
        \/ \E t \in 0..MaxGens, code \in HookCodes, callback_type \in HookTypes,
              data \in HookData : HookReceive(h, t, code, callback_type, data)
        \/ HookGetUser(h)
        \/ HookDebit(h)
        \/ HookWriteComplete(h)
        \/ HookWriteError(h)

WatchdogStep == WatchdogSweep \/ WatchdogMark

AgeStep == \E g \in Gens : Age(g)

\* webhook deployment: the handlers return once the job is submitted
NextWebhook ==
    \/ SubmitStep
    \/ \E g \in Gens : WriteCallbackInfo(g)
    \/ HookStep
    \/ WatchdogStep
    \/ AgeStep

SpecWebhook == InitWebhook /\ [][NextWebhook]_vars

\* polling deployment: the handlers wait for the result themselves
NextPoll ==
    \/ SubmitStep
    \/ PollStep
    \/ HookStep
    \/ WatchdogStep
    \/ AgeStep

SpecPoll == InitPoll /\ [][NextPoll]_vars

\* webhook deployment in which the provider accepts every job and then never
\* answers; the watchdog task loops for as long as the process runs
NextQuiet ==
    \/ \E g \in Gens :
            \/ \E u \in Users, kind \in {"do_generate", "cb_regenerate"} : Start(g, u, kind)
            \/ Submit(g)
            \/ WriteProcessing(g)
            \/ WriteCallbackInfo(g)
    \/ WatchdogStep
    \/ AgeStep

SpecQuiet == InitWebhook /\ [][NextQuiet]_vars /\ WF_vars(WatchdogStep)

\* polling deployment with credit purchases and admin grants, no webhook
PurchaseStep == \E u \in Users : StarsPurchase(u)

AdminStep == \E u \in Users : AdminCredit(u)

NextLedger == SubmitStep \/ PollStep \/ PurchaseStep \/ AdminStep

SpecLedger == InitPoll /\ [][NextLedger]_vars

\* polling deployment: submissions and their failures, and chat-member
\* updates, for users who may already have content violations
ChatMemberStep ==
    \E u \in Users, new_status \in {"kicked", "left", "member", "administrator"} :
        ChatMemberUpdate(u, new_status)

InitBlock ==
    /\ InitWith({v \in 0..MaxInitViolations : v < VIOLATION_LIMIT})
    /\ ~callback_base_url

NextBlock == SubmitStep \/ ChatMemberStep

SpecBlock == InitBlock /\ [][NextBlock]_vars

\* webhook deployment, every payload, no watchdog sweep
NextHook ==
    \/ SubmitStep
    \/ \E g \in Gens : WriteCallbackInfo(g)
    \/ AnyHookStep

SpecHook == InitWebhook /\ [][NextHook]_vars

\* polling deployment in which the provider also posts its progress callbacks
IntermediateStep ==
    \E h \in Hooks, t \in 0..MaxGens, code \in HookCodes,
       callback_type \in {"text", "first"}, data \in HookData :
        HookReceive(h, t, code, callback_type, data)

NextIntermediate == SubmitStep \/ PollStep \/ IntermediateStep

SpecIntermediate == InitPoll /\ [][NextIntermediate]_vars

\* polling deployment with every failure of the handlers; the watchdog task
\* loops for as long as the process runs, and time passes
ExceptionStep == \E g \in Gens : RaiseException(g)

NextLost == NextPoll \/ ExceptionStep

SpecLost ==
    InitPoll /\ [][NextLost]_vars /\ WF_vars(WatchdogStep) /\ WF_vars(AgeStep)

\* webhook deployment with credit purchases and admin grants going on while
\* completions are handled
NextGrant ==
    \/ SubmitStep
    \/ \E g \in Gens : WriteCallbackInfo(g)
    \/ HookStep
    \/ PurchaseStep
    \/ AdminStep

SpecGrant == InitWebhook /\ [][NextGrant]_vars

\* polling deployment with the free-generation gates configured
InitGate == InitWithGate({0}, BOOLEAN) /\ ~callback_base_url

NextGate == SubmitStep \/ PollStep

SpecGate == InitGate /\ [][NextGate]_vars

\* polling deployment in which the poll loop and the callbacks report the
\* provider's states
NextParse ==
    \/ SubmitStep
    \/ \E g \in Gens, status \in ProviderStatuses : ProviderAdvance(g, status)
    \/ \E g \in Gens :
            \/ PollObserve(g)
            \/ RegenDebit(g)
            \/ PollWriteComplete(g)
            \/ \E ok \in BOOLEAN : PollDeliver(g, ok)
    \/ \E h \in Hooks :
            \/ \E g \in Gens : HookObserve(h, g)
            \/ HookGetUser(h)
            \/ HookDebit(h)
            \/ HookWriteComplete(h)
            \/ HookWriteError(h)

SpecParse == InitPoll /\ [][NextParse]_vars

\* polling deployment, the handlers alone, with every failure of theirs
NextFail == SubmitStep \/ ExceptionStep \/ PollStep

SpecFail == InitPoll /\ [][NextFail]_vars

\* ------------------------------------------ handlers/callback.py (video)
\* register_video_task, called once with the task id create_video returned
register_video_task(v) ==
    /\ ~video_hist[v].registered
    /\ pending_video_tasks' = pending_video_tasks \cup {v}
    /\ video_hist' = [video_hist EXCEPT ![v].registered = TRUE]
    /\ UNCHANGED <<core, notVideo, vh>>

\* handle_video_callback up to its await: request.json() gives the payload, with
\* data.task_id ("": none), code and whether data.video_url is there
VideoReceive(h, task_id, code, video_url) ==
    /\ vh[h].pc = "idle"
    /\ \A k \in VideoHooks : k < h => vh[k].pc # "idle"
    /\ vh' = [vh EXCEPT ![h] = [pc |-> "parsed", task_id |-> task_id,
                                code |-> code, video_url |-> video_url]]
    /\ UNCHANGED <<core, notVideo, pending_video_tasks, video_hist>>

\* request.json() raises: answered 400
VideoInvalidJson(h) ==
    /\ vh[h].pc = "idle"
    /\ \A k \in VideoHooks : k < h => vh[k].pc # "idle"
    /\ vh' = [vh EXCEPT ![h].pc = "invalid"]
    /\ UNCHANGED <<core, notVideo, pending_video_tasks, video_hist>>

\* whether the run starts _deliver_video: the context was there, code is 200,
\* the payload has a video_url and get_bot() gives a bot
StartsDelivery(h, bot) ==
    /\ vh[h].task_id \in pending_video_tasks
    /\ vh[h].code = 200
    /\ vh[h].video_url
    /\ bot

\* the rest of handle_video_callback, which has no await; the variant reads the
\* context and leaves it in the store
VideoHandleKeep(h, bot) ==
    /\ vh[h].pc = "parsed"
    /\ vh' = [vh EXCEPT ![h].pc = "ok"]
    /\ UNCHANGED pending_video_tasks
    /\ video_hist' = IF StartsDelivery(h, bot)
                      THEN [video_hist EXCEPT ![vh[h].task_id].started = @ + 1]
                      ELSE video_hist
    /\ UNCHANGED <<core, notVideo>>

VideoHandle(h, bot) ==
    /\ vh[h].pc = "parsed"
    /\ vh' = [vh EXCEPT ![h].pc = "ok"]
    /\ pending_video_tasks' = pending_video_tasks \ {vh[h].task_id}
    /\ video_hist' = IF StartsDelivery(h, bot)
                      THEN [video_hist EXCEPT ![vh[h].task_id].started = @ + 1]
                      ELSE video_hist
    /\ UNCHANGED <<core, notVideo>>

VideoStep ==
    \/ \E v \in OwnVideoIds : register_video_task(v)
    \/ \E h \in VideoHooks, task_id \in VideoIds \cup {""}, code \in HookCodes,
          video_url \in BOOLEAN : VideoReceive(h, task_id, code, video_url)
    \/ \E h \in VideoHooks : VideoInvalidJson(h)
    \/ \E h \in VideoHooks, bot \in BOOLEAN : VideoHandle(h, bot)

\* the callback server taking video callbacks, any of them, in any order
InitVideo ==
    /\ InitWebhook
    /\ \A u \in Users : users[u].credits = 0 /\ users[u].free_generations_left = 0

SpecVideo == InitVideo /\ [][VideoStep]_vars

\* admin.py reset_daily_counter
ResetDailyCounter(u) ==
    /\ gens' = reset_user_daily_generations(gens, u)
    /\ UNCHANGED <<users, ledger, gh, wh, wd, callback_base_url, payments, hist, aside>>

ResetStep == \E u \in Users : ResetDailyCounter(u)

\* jobs created and submitted, the watchdog, and the admin resetting daily counters
NextReset == NextQuiet \/ ResetStep

SpecReset == InitWebhook /\ [][NextReset]_vars

\* -------------------------------------------------- tbank_api.py, main.py
\* the token of a notification: SHA-256 (taken as injective) of the values of
\* its scalar fields and of the password, in the order of their keys
\* (OrderId, Password, Status)
generate_token(OrderId, Status, password) == <<OrderId, password, Status>>

\* an empty Token never verifies
verify_notification_token(data) ==
    /\ data.Token # <<>>
    /\ data.Token = generate_token(data.OrderId, data.Status, tbank_password)

\* the notifications that can arrive: any order id and status, with the token
\* of any notification made with the password or with another one, or none
Notifications ==
    [OrderId : OrderIds, Status : TbStatuses,
     Token : {generate_token(o, s, p) : o \in OrderIds, s \in TbStatuses, p \in Passwords}
                \cup {<<>>}]

\* cb_buy_tbank: the pending payment row of a new order (a package of 1 credit)
BuyTbank(u, order_id) ==
    /\ \A i \in DOMAIN payments : payments[i].order_id # order_id
    /\ payments' = create_tbank_payment(payments, u, order_id, 1)
    /\ UNCHANGED <<users, gens, ledger, gh, wh, wd, callback_base_url, hist, aside>>

\* handle_tbank_notification up to complete_tbank_payment: the token is
\* verified, then the status tested; the variant tests the token only
TbReceiveAnyStatus(n, data) ==
    /\ tb[n].pc = "idle"
    /\ \A k \in TbHooks : k < n => tb[k].pc # "idle"
    /\ tb' = [tb EXCEPT ![n] =
                [IdleTb EXCEPT !.Status = data.Status, !.OrderId = data.OrderId,
                               !.verified = verify_notification_token(data),
                               !.pc = IF verify_notification_token(data)
                                      THEN "select" ELSE "ok"]]
    /\ UNCHANGED <<core, notTbank>>

TbReceive(n, data) ==
    /\ tb[n].pc = "idle"
    /\ \A k \in TbHooks : k < n => tb[k].pc # "idle"
    /\ tb' = [tb EXCEPT ![n] =
                [IdleTb EXCEPT !.Status = data.Status, !.OrderId = data.OrderId,
                               !.verified = verify_notification_token(data),
                               !.pc = IF verify_notification_token(data)
                                         /\ data.Status = "CONFIRMED"
                                      THEN "select" ELSE "ok"]]
    /\ UNCHANGED <<core, notTbank>>

\* request.json() raises: the except clause answers 200 'OK'
TbBadRequest(n) ==
    /\ tb[n].pc = "idle"
    /\ \A k \in TbHooks : k < n => tb[k].pc # "idle"
    /\ tb' = [tb EXCEPT ![n].pc = "ok"]
    /\ UNCHANGED <<core, notTbank>>

\* complete_tbank_payment: the SELECT of the pending row; none: returns None
TbSelect(n) ==
    /\ tb[n].pc = "select"
    /\ tb' = [tb EXCEPT ![n].payment = PendingTbankPayment(payments, tb[n].OrderId),
                        ![n].pc = IF PendingTbankPayment(payments, tb[n].OrderId) = 0
                                  THEN "ok" ELSE "mark"]
    /\ UNCHANGED <<core, notTbank>>

\* UPDATE payments SET status = 'completed' WHERE id = $1
TbMark(n) ==
    /\ tb[n].pc = "mark"
    /\ payments' = [payments EXCEPT ![tb[n].payment].status = "completed"]
    /\ tb' = [tb EXCEPT ![n].marked = TRUE, ![n].pc = "credit"]
    /\ UNCHANGED <<users, gens, ledger, gh, wh, wd, callback_base_url, hist,
                   notTbank>>

\* UPDATE users SET credits = credits + $2, with the row's credits_purchased
TbCredit(n) ==
    /\ tb[n].pc = "credit"
    /\ users' = update_user_credits(users, payments[tb[n].payment].user_id,
                                    payments[tb[n].payment].credits_purchased)
    /\ tb' = [tb EXCEPT ![n].credited = TRUE, ![n].pc = "notify"]
    /\ UNCHANGED <<gens, ledger, gh, wh, wd, callback_base_url, payments, hist,
                   notTbank>>

\* get_user and the message to the user: sent, refused because the user has
\* blocked the bot (mark_user_blocked), or failed otherwise; then 200 'OK'
TbNotify(n, sent) ==
    /\ tb[n].pc = "notify"
    /\ users' = IF sent = "blocked"
                THEN mark_user_blocked(users, payments[tb[n].payment].user_id)
                ELSE users
    /\ tb' = [tb EXCEPT ![n].pc = "ok"]
    /\ UNCHANGED <<gens, ledger, gh, wh, wd, callback_base_url, payments, hist,
                   notTbank>>

TbankStep ==
    \/ \E u \in Users : BuyTbank(u, "o1")
    \/ \E n \in TbHooks, data \in Notifications : TbReceive(n, data)
    \/ \E n \in TbHooks : TbBadRequest(n)
    \/ \E n \in TbHooks : TbSelect(n)
    \/ \E n \in TbHooks : TbMark(n)
    \/ \E n \in TbHooks : TbCredit(n)
    \/ \E n \in TbHooks, sent \in {"sent", "blocked", "failed"} : TbNotify(n, sent)

\* card purchases and the notifications of the bank, or of anyone, in any order
SpecTbank == InitWebhook /\ [][TbankStep]_vars

\* ------------------------------------------- generation.py (cb_download)
\* get_user, and the balance test on the row read
DlGetUser(u, g) ==
    /\ dl.pc = "idle"
    /\ dl' = [dl EXCEPT !.user = u, !.gen = g,
                        !.user_free = users[u].free_generations_left > 0,
                        !.pc = IF users[u].credits <= 0
                                  /\ users[u].free_generations_left <= 0
                               THEN "refused" ELSE "get_gen"]
    /\ UNCHANGED <<core, notDownload>>

\* get_generation: the row must be there with the track's url
DlGetGen ==
    /\ dl.pc = "get_gen"
    /\ dl' = [dl EXCEPT !.pc = IF gens[dl.gen].audio_urls = "audio"
                               THEN "debit" ELSE "not_found"]
    /\ UNCHANGED <<core, notDownload>>

\* use_free_generation if the row read had free generations, else
\* update_user_credits(-1); then the 'download' log entry
DlDebit ==
    /\ dl.pc = "debit"
    /\ users' = Debit(users, dl.user, dl.user_free)
    /\ ledger' = log_balance_transaction(ledger, dl.user, -1, "download", dl.gen)
    /\ dl' = [dl EXCEPT !.pc = "fetch",
                        !.pool = IF Debit(users, dl.user, dl.user_free) = users THEN "nothing"
                                 ELSE IF dl.user_free THEN "free" ELSE "paid"]
    /\ UNCHANGED <<gens, gh, wh, wd, callback_base_url, payments, hist,
                   notDownload>>

\* the file is fetched and sent, or one of the two raises
DlSend(ok) ==
    /\ dl.pc = "fetch"
    /\ dl' = [dl EXCEPT !.pc = IF ok THEN "done" ELSE "refund"]
    /\ UNCHANGED <<core, notDownload>>

\* the except clause: update_user_credits(+1), then the 'refund' log entry
DlRefund ==
    /\ dl.pc = "refund"
    /\ users' = update_user_credits(users, dl.user, 1)
    /\ ledger' = log_balance_transaction(ledger, dl.user, 1, "refund", dl.gen)
    /\ dl' = [dl EXCEPT !.pc = "refunded"]
    /\ UNCHANGED <<gens, gh, wh, wd, callback_base_url, payments, hist,
                   notDownload>>

DownloadStep ==
    \/ \E u \in Users, g \in Gens : DlGetUser(u, g)
    \/ DlGetGen
    \/ DlDebit
    \/ \E ok \in BOOLEAN : DlSend(ok)
    \/ DlRefund

\* polling deployment, users as they sign up by default, and a download
InitDownload ==
    InitWithFree({0}, {FALSE}, 0..FREE_CREDITS_ON_SIGNUP) /\ ~callback_base_url

NextDownload == NextGate \/ DownloadStep

SpecDownload == InitDownload /\ [][NextDownload]_vars

\* ---------------------------------------------- common.py (cmd_start)
\* referred_by as cmd_start parses it from the message of sender
ParseReferral(arg, sender) ==
    IF arg \in {"none", "junk"} \/ arg = sender THEN "none" ELSE arg

\* state.clear(), the deep link parsed, get_user(sender): is_new
StGetUser(s, arg) ==
    /\ st[s].pc = "idle"
    /\ \A k \in Starts : k < s => st[k].pc # "idle"
    /\ st' = [st EXCEPT ![s].referred_by = ParseReferral(arg, "n1"),
                        ![s].is_new = ~newcomer.exists,
                        ![s].pc = "select"]
    /\ UNCHANGED <<core, notStart, newcomer>>

\* get_or_create_user: its SELECT
StSelect(s) ==
    /\ st[s].pc = "select"
    /\ st' = [st EXCEPT ![s].found = newcomer.exists,
                        ![s].pc = IF ~newcomer.exists THEN "insert"
                                  ELSE IF st[s].is_new /\ st[s].referred_by # "none"
                                       THEN "get_referrer" ELSE "welcome"]
    /\ UNCHANGED <<core, notStart, newcomer>>

\* get_or_create_user: its INSERT, which raises on the primary key if the row
\* has been inserted since; referred_by is passed only if is_new
StInsert(s) ==
    /\ st[s].pc = "insert"
    /\ newcomer' = IF newcomer.exists THEN newcomer
                   ELSE [exists |-> TRUE,
                         referred_by |-> IF st[s].is_new THEN st[s].referred_by ELSE "none"]
    /\ st' = [st EXCEPT ![s].pc = IF newcomer.exists THEN "raised"
                                  ELSE IF st[s].is_new /\ st[s].referred_by # "none"
                                       THEN "get_referrer" ELSE "welcome"]
    /\ UNCHANGED <<core, notStart>>

\* referrer = get_user(referred_by)
StGetReferrer(s) ==
    /\ st[s].pc = "get_referrer"
    /\ st' = [st EXCEPT ![s].pc = IF st[s].referred_by \in Users THEN "bonus" ELSE "welcome"]
    /\ UNCHANGED <<core, notStart, newcomer>>

\* update_user_credits(referred_by, 1), then the 'referral' log entry
StBonus(s) ==
    /\ st[s].pc = "bonus"
    /\ users' = update_user_credits(users, st[s].referred_by, 1)
    /\ ledger' = log_balance_transaction(ledger, st[s].referred_by, 1, "referral", 0)
    /\ st' = [st EXCEPT ![s].granted = TRUE, ![s].pc = "notify"]
    /\ UNCHANGED <<gens, gh, wh, wd, callback_base_url, payments, hist,
                   notStart, newcomer>>

\* the message to the inviter: sent, refused because the inviter has blocked
\* the bot (mark_user_blocked), or failed otherwise
StNotify(s, sent) ==
    /\ st[s].pc = "notify"
    /\ users' = IF sent = "blocked" THEN mark_user_blocked(users, st[s].referred_by)
                ELSE users
    /\ st' = [st EXCEPT ![s].pc = "welcome"]
    /\ UNCHANGED <<gens, ledger, gh, wh, wd, callback_base_url, payments, hist,
                   notStart, newcomer>>

\* the 'signup_bonus' log entry if is_new, and the welcome message
StWelcome(s) ==
    /\ st[s].pc = "welcome"
    /\ ledger' = IF st[s].is_new
                 THEN log_balance_transaction(ledger, "n1", FREE_CREDITS_ON_SIGNUP,
                                              "signup_bonus", 0)
                 ELSE ledger
    /\ st' = [st EXCEPT ![s].pc = "done"]
    /\ UNCHANGED <<users, gens, gh, wh, wd, callback_base_url, payments, hist,
                   notStart, newcomer>>

StartStep ==
    \E s \in Starts :
        \/ \E arg \in StartArgs : StGetUser(s, arg)
        \/ StSelect(s)
        \/ StInsert(s)
        \/ StGetReferrer(s)
        \/ StBonus(s)
        \/ \E sent \in {"sent", "blocked", "failed"} : StNotify(s, sent)
        \/ StWelcome(s)

\* the /start messages of one new account, handled as concurrent tasks
SpecStart == InitPoll /\ [][StartStep]_vars

\* one run of wait_for_completion against a provider that answers anything
WaitStep ==
    \/ \E lag \in Lags : WaitInitialSleep(lag)
    \/ \E lag \in Lags : WaitSleep(lag)
    \/ \E status \in PollReplies, data \in {"audio", "none"}, lag \in Lags :
            WaitPoll(status, data, lag)
    \/ \E lag \in Lags : WaitPollRaises(lag)

\* the event loop resumes a coroutine whose await has completed, and every
\* sleep and every request of the client (timeout 120 s) completes
SpecWait == InitPoll /\ [][WaitStep]_vars /\ WF_vars(WaitStep)

\* polling deployment, for users who may already have content violations and
\* are blocked by the rejection that takes them to the limit
SpecBan == InitBlock /\ [][NextGate]_vars

\* ------------------------------------------------------------ properties
\* balance-transaction entries of -1 written on behalf of job g
LedgerDebits(g) ==
    Cardinality({i \in 1..Len(ledger) : ledger[i].gen = g /\ ledger[i].delta = -1})

\* every handle_suno_callback run has returned
HooksFinished(g) ==
    \A h \in Hooks : wh[h].gen = g => wh[h].pc \in {"done", "acked"}

\* this step is the watchdog's write on job g
WatchdogWrites(g) == wd # <<>> /\ Head(wd).id = g /\ wd' = Tail(wd)

\* this step leaves every job row, balance, log entry and delivery untouched
NoEffect == gens' = gens /\ users' = users /\ ledger' = ledger /\ hist' = hist

\* C1: once a job's status is 'complete' or 'error', no step changes its
\* status, artifacts, credits_spent or error_message
C1_TerminalIsFinal ==
    [][\A g \in Gens :
          gens[g].status \in Terminal =>
              /\ gens'[g].status = gens[g].status
              /\ gens'[g].audio_urls = gens[g].audio_urls
              /\ gens'[g].credits_spent = gens[g].credits_spent
              /\ gens'[g].error_message = gens[g].error_message]_vars

\* C2: a success webhook that starts after an earlier success webhook for the
\* same job has returned only acknowledges: none of its steps debits, writes
\* the job or starts a delivery
C2_SequentialDuplicate ==
    [][\A h \in Hooks :
          (wh[h].after_done /\ wh'[h] # wh[h]) => NoEffect]_vars

\* C3: when two webhook runs reporting success for the same job have both
\* returned, the job has exactly one debit entry and one balance decrement,
\* and no more than one delivery was started
C3_ConcurrentDuplicates ==
    \A g \in Gens :
        (\A h \in Hooks : wh[h].pc \in {"done", "acked"} /\ wh[h].kind = "success"
                              /\ wh[h].gen = g)
            => /\ LedgerDebits(g) = 1
               /\ hist[g].debits = 1
               /\ hist[g].deliveries <= 1

\* C4: when the polling path and a success webhook have both reported the
\* completion of a job, the job was written 'complete' once and debited once
C4_WebhookVersusPoll ==
    \A g \in Gens :
        (/\ gh[g].pc \in {"deliver", "done"}
         /\ \E h \in Hooks : wh[h].pc \in {"done", "acked"} /\ wh[h].kind = "success"
                                 /\ wh[h].gen = g)
            => hist[g].completes = 1 /\ hist[g].debits = 1

\* C5: a success webhook that finds the job already set to 'error'/'timeout' by
\* the watchdog is a no-op: none of its steps debits, writes the job or
\* starts a delivery
C5_NoResurrection ==
    [][\A h \in Hooks :
          (wh[h].seen_timeout /\ wh[h].kind = "success" /\ wh'[h] # wh[h])
              => NoEffect]_vars

\* C6: the watchdog never writes 'error'/'timeout' over a job that has become
\* 'complete' since the stuck list was read, and it notifies only for a job
\* its write moved out of a non-terminal status
C6_WatchdogVersusCompletion ==
    [][\A g \in Gens :
          /\ (WatchdogWrites(g) /\ gens[g].status = "complete")
                => gens'[g].status = "complete"
          /\ hist'[g].notified > hist[g].notified
                => gens[g].status \in NonTerminal]_vars

\* C7: a job that was completed (once) has decremented its owner's balance by
\* exactly one unit
C7_OneUnitPerCompletion ==
    \A g \in Gens :
        (gens[g].status = "complete" /\ hist[g].completes = 1 /\ HooksFinished(g))
            => hist[g].debits = 1

\* C8: the pool a job's unit was taken from is the tier fixed for the job when
\* it was created
C8_TierFixedAtSubmission ==
    \A g \in Gens :
        (hist[g].debits = 1 /\ hist[g].pool # "none") => hist[g].pool = hist[g].tier

C10_FreeTierAccounting ==
    \A g \in Gens :
        (/\ gens[g].status = "complete" /\ hist[g].completes = 1
         /\ hist[g].free_only /\ HooksFinished(g))
            => /\ hist[g].pool = "free" /\ hist[g].debits = 1
               /\ LedgerDebits(g) = 1
               /\ gens[g].credits_spent = 0

\* sum of the deltas of u's entries among the first n entries of the log
RECURSIVE LedgerSum(_, _)
LedgerSum(u, n) ==
    IF n = 0 THEN 0
    ELSE LedgerSum(u, n - 1) + (IF ledger[n].user = u THEN ledger[n].delta ELSE 0)

\* no handler, webhook request or watchdog sweep is between two of its steps
Quiescent ==
    /\ \A g \in Gens : gh[g].pc \in {"idle", "done", "failed"}
    /\ \A h \in Hooks : wh[h].pc \in {"idle", "done", "acked"}
    /\ wd = <<>>

\* C11: whenever no operation is in progress, the deltas of each user's log
\* entries sum to free_generations_left + credits; and every step keeps the
\* log's existing entries as they are (entries are only appended)
C11_LedgerReconciles ==
    /\ [](Quiescent =>
            \A u \in Users :
                LedgerSum(u, Len(ledger))
                    = users[u].free_generations_left + users[u].credits)
    /\ [][/\ Len(ledger') >= Len(ledger)
          /\ SubSeq(ledger', 1, Len(ledger)) = ledger]_vars

\* C12: the handler's content-policy path raises the owner's
\* content_violations by exactly one and then writes the job 'error' with
\* error_message 'content_policy'; neither step changes a balance pool,
\* credits_spent or the log
C12_ContentPolicyRejection ==
    [][\A g \in Gens :
          /\ (gh[g].pc \in {"created", "polling"} /\ gh'[g].pc = "cp_err") =>
                /\ users'[Owner(g)].content_violations
                        = users[Owner(g)].content_violations + 1
                /\ users'[Owner(g)].credits = users[Owner(g)].credits
                /\ users'[Owner(g)].free_generations_left
                        = users[Owner(g)].free_generations_left
                /\ ledger' = ledger
          /\ (gh[g].pc = "cp_err" /\ gh'[g].pc = "failed") =>
                /\ gens'[g].status = "error"
                /\ gens'[g].error_message = "content_policy"
                /\ gens'[g].credits_spent = gens[g].credits_spent
                /\ users' = users
                /\ ledger' = ledger]_vars

C12_Witness ==
    \E g \in Gens :
        /\ gh[g].pc = "failed"
        /\ gens[g].status = "error" /\ gens[g].error_message = "content_policy"
        /\ gens[g].task
        /\ users[Owner(g)].content_violations = 1

C15_MalformedArtifacts ==
    [][\A h \in Hooks :
          (wh'[h].kind \in {"empty", "blank"} /\ wh'[h] # wh[h]) =>
              /\ users' = users
              /\ ledger' = ledger
              /\ (wh'[h].pc \in {"acked", "done"} /\ wh'[h].gen # 0
                        /\ gens[wh'[h].gen].status \in NonTerminal)
                    => gens'[wh'[h].gen].status = "error"]_vars

\* C16: a webhook whose callbackType is 'text' or 'first' is acknowledged at
\* once and changes no job row, balance or log entry, whatever the status of
\* the job it names
C16_IntermediateIgnored ==
    [][\A h \in Hooks :
          wh'[h] # wh[h] => (wh'[h].pc = "acked" /\ NoEffect)]_vars

C16_Witness ==
    \E h \in Hooks, g \in Gens :
        /\ wh[h].pc = "acked" /\ wh[h].kind = "intermediate"
        /\ gens[g].status = "complete"

\* C17: a webhook whose task id is empty or stored with no job is acknowledged
\* at once and changes no job row, balance or log entry; a webhook that goes
\* further was matched to a job that stores its task id
C17_UnknownTaskIgnored ==
    [][\A h \in Hooks :
          /\ (wh[h].pc = "idle" /\ wh'[h].pc # "idle" /\ wh'[h].gen = 0)
                => (wh'[h].pc = "acked" /\ NoEffect)
          /\ (wh'[h] # wh[h] /\ wh'[h].gen # 0)
                => (gens[wh'[h].gen].task /\ gens[wh'[h].gen].status # "none")]_vars

C17_Witness ==
    \E h \in Hooks, g \in Gens :
        /\ wh[h].pc = "acked" /\ wh[h].kind = "success" /\ wh[h].gen = 0
        /\ gens[g].status = "pending"

\* C18: a delivery that fails (fetching the artifact, sending a message or a
\* file, requesting the video) leaves a 'complete' job 'complete' and changes
\* no balance pool and no log entry
C18_DeliveryFailureKeepsComplete ==
    [][\A g \in Gens :
          (gh[g].pc = "deliver" /\ gh'[g].pc = "failed") =>
              /\ gens[g].status = "complete" => gens'[g].status = "complete"
              /\ users' = users
              /\ ledger' = ledger]_vars

\* C19: the full-length audio of a job is handed over only when the job is
\* paid-tier; a free-tier job's delivery never hands over more than the preview
C19_TierFidelity ==
    \A g \in Gens : hist[g].full_audio => hist[g].tier = "paid"

C22_ErrorJobsUncharged ==
    \A g \in Gens :
        gens[g].status = "error"
            => /\ gens[g].credits_spent = 0
               /\ hist[g].debits = 0
               /\ LedgerDebits(g) = 0

\* C23: a success webhook for a task id the provider has handed out is never
\* dropped as 'job not found', and the run that writes 'complete' starts the
\* delivery
C23_EarlyWebhook ==
    [][\A h \in Hooks :
          /\ (wh[h].pc = "idle" /\ wh'[h].pc # "idle" /\ wh'[h].kind = "success")
                => wh'[h].gen # 0
          /\ (wh[h].pc = "logged" /\ wh'[h].pc = "done")
                => hist'[wh[h].gen].deliveries = hist[wh[h].gen].deliveries + 1]_vars

\* C24: an error webhook that finds its job already 'error' is acknowledged at
\* once, and no error webhook writes the row of a job that is 'error'
C24_RepeatedErrorWebhook ==
    [][\A h \in Hooks :
          /\ (/\ wh[h].pc = "idle" /\ wh'[h].kind = "error" /\ wh'[h].gen # 0
               /\ gens[wh'[h].gen].status = "error")
                => wh'[h].pc = "acked"
          /\ (wh[h].kind = "error" /\ wh[h].pc = "got_gen" /\ wh'[h].pc = "done")
                => gens[wh[h].gen].status # "error"]_vars

\* sum of the deltas of u's entries with the given tag among the first n
\* entries of the log
RECURSIVE TagSum(_, _, _)
TagSum(u, tag, n) ==
    IF n = 0 THEN 0
    ELSE TagSum(u, tag, n - 1)
            + (IF ledger[n].user = u /\ ledger[n].tag = tag THEN ledger[n].delta ELSE 0)

\* credits of u's completed payments among the first n rows of payments
RECURSIVE PaymentSum(_, _)
PaymentSum(u, n) ==
    IF n = 0 THEN 0
    ELSE PaymentSum(u, n - 1)
            + (IF payments[n].user_id = u /\ payments[n].status = "completed"
               THEN payments[n].credits_purchased ELSE 0)

\* C25: in every state a user's credits are what was granted (the initial
\* grant, every admin grant, every completed payment) minus one for every
\* debit a completion took from the paid pool, however grants and
\* completions interleave
C25_GrantsNeverLost ==
    \A u \in Users :
        users[u].credits = TagSum(u, "admin", Len(ledger))
                            + PaymentSum(u, Len(payments))
                            + TagSum(u, "generation", Len(ledger))

C25_Witness ==
    \E h \in Hooks :
        /\ wh[h].pc = "logged" /\ ~wh[h].is_free
        /\ payments # <<>>
        /\ Len(ledger) >= 4
        /\ ledger[Len(ledger) - 1].tag = "admin"
        /\ ledger[Len(ledger)].tag = "generation"

\* C26: no step decrements free_generations_left of a user who fails a
\* free-generation gate, and a user with paid credits passes the credit check
C26_FreePoolGate ==
    /\ [][\A u \in Users :
            users[u].fails_gate =>
                users'[u].free_generations_left >= users[u].free_generations_left]_vars
    /\ [](\A u \in Users : users[u].credits > 0 => check_credits(users, u))

\* C27: for every state the provider has a task in, the poll loop and the
\* callback handler come to the same one of Pending / Complete / Error, and
\* no job is 'complete' while the provider has not finished all its tracks
C27_ParsersAgree ==
    \A g \in Gens :
        hist[g].provider \notin {"none", "PENDING"} =>
            /\ wait_for_completion(hist[g].provider, "audio")
                    = callback_outcome(CallbackOf(hist[g].provider).code,
                                       CallbackOf(hist[g].provider).callback_type, "audio")
            /\ gens[g].status = "complete" => hist[g].provider = "SUCCESS"

\* C28: the error write of a webhook that reports a sensitive-word rejection
\* comes with one more content violation for the job's owner, and with the
\* block once the counter reaches the limit
C28_WebhookContentPolicy ==
    [][\A h \in Hooks :
          (/\ wh[h].pc = "got_gen" /\ wh[h].kind = "error" /\ wh'[h].pc = "done"
           /\ hist[wh[h].gen].provider = "SENSITIVE_WORD_ERROR")
            => LET u == Owner(wh[h].gen)
               IN  /\ users'[u].content_violations = users[u].content_violations + 1
                   /\ users'[u].content_violations >= VIOLATION_LIMIT
                        => users'[u].is_blocked]_vars

\* C29: when generate or the poll raises, the handler returns with the job
\* 'error', without a task id if generate did not return one, and without a
\* debit made for the job
C29_SubmissionFailure ==
    [][\A g \in Gens :
          (gh[g].pc \in {"created", "polling", "cp_err"} /\ gh'[g].pc = "failed")
            => /\ gens'[g].status = "error"
               /\ ~hist[g].submitted => ~gens'[g].task
               /\ hist'[g].debits = 0
               /\ LedgerDebits(g) = 0]_vars

\* C30: generate has returned a task id at most once for every job row, and
\* exactly once for every row that carries a task id ('processing' was
\* written), whatever failures, webhooks and watchdog sweeps have happened
C30_SingleSubmit ==
    \A g \in Gens :
        /\ hist[g].submits <= 1
        /\ gens[g].task => hist[g].submits = 1
        /\ gens[g].status = "none" => hist[g].submits = 0

C30_Witness ==
    \E g \in Gens, h \in Hooks :
        /\ hist[g].submits = 1
        /\ wh[h].gen = g /\ wh[h].pc = "done" /\ wh[h].kind = "error"
        /\ gens[g].status = "error" /\ gens[g].error_message = "timeout"

\* C33: no balance pool of any user is ever negative
C33_NonNegativeBalances ==
    \A u \in Users :
        users[u].credits >= 0 /\ users[u].free_generations_left >= 0

\* C39: no job row is created, and no job is submitted, for a user whose
\* is_blocked is true at that moment
C39_BlockedUserNoJob ==
    [][\A g \in Gens :
          /\ (gens[g].status = "none" /\ gens'[g].status # "none")
                => ~users[gens'[g].user_id].is_blocked
          /\ (~hist[g].submitted /\ hist'[g].submitted)
                => ~users[gens[g].user_id].is_blocked]_vars

\* C31: every run of wait_for_completion ends: it returns the tracks or raises,
\* whatever the polls answer; it polls only while fewer than TIMEOUT seconds
\* have passed, and raises the timeout error only once they have
C31_WaitTerminates ==
    /\ <>(wfc.pc \in WaitEnded)
    /\ [](wfc.pc = "poll" => wfc.elapsed < TIMEOUT)
    /\ [](wfc.pc = "timeout" => wfc.elapsed >= TIMEOUT)

\* only PENDING or unknown answers, to the timeout
C31_Witness == wfc.pc = "timeout" /\ wfc.elapsed >= TIMEOUT

\* C32: a video task id has at most one _deliver_video started, however many
\* callbacks name it; none is started for an id that was never registered, and a
\* callback whose id has no context leaves the store and the deliveries as they are
C32_VideoClaimedOnce ==
    /\ [](\A v \in VideoIds :
            /\ video_hist[v].started <= 1
            /\ (~video_hist[v].registered => video_hist[v].started = 0))
    /\ [][\A h \in VideoHooks :
             (vh[h].pc = "parsed" /\ vh'[h].pc = "ok"
                 /\ vh[h].task_id \notin pending_video_tasks)
               => (pending_video_tasks' = pending_video_tasks
                     /\ video_hist' = video_hist)]_vars

\* one delivery started for v1 after two successful callbacks for it were handled
C32_Witness ==
    /\ video_hist["v1"].started = 1
    /\ \E h, k \in VideoHooks :
          /\ h # k
          /\ vh[h].pc = "ok" /\ vh[k].pc = "ok"
          /\ vh[h].task_id = "v1" /\ vh[k].task_id = "v1"
          /\ vh[h].code = 200 /\ vh[k].code = 200
          /\ vh[h].video_url /\ vh[k].video_url

\* C34: every job the watchdog has listed to force to a timeout error was
\* created longer ago than the timeout
C34_OnlyAgedJobsTimedOut ==
    \A i \in DOMAIN wd : hist[wd[i].id].aged

\* C35: of the notifications for one order at most one marks the payment
\* completed and at most one adds its credits to the user
C35_OrderCreditedOnce ==
    \A o \in OrderIds :
        /\ Cardinality({n \in TbHooks : tb[n].OrderId = o /\ tb[n].marked}) <= 1
        /\ Cardinality({n \in TbHooks : tb[n].OrderId = o /\ tb[n].credited}) <= 1

\* C36: a notification whose token does not verify or whose status is not
\* CONFIRMED is answered 200 'OK' at once, with every payment row and every
\* user row as it was, and only verified CONFIRMED ones go on to the payment
C36_RejectedNotificationNoEffect ==
    /\ [][\A n \in TbHooks :
             (tb[n].pc = "idle" /\ tb'[n].pc # "idle"
                 /\ (~tb'[n].verified \/ tb'[n].Status # "CONFIRMED"))
               => (tb'[n].pc = "ok" /\ payments' = payments /\ users' = users)]_vars
    /\ [](\A n \in TbHooks :
            tb[n].pc \in {"select", "mark", "credit", "notify"}
               => (tb[n].verified /\ tb[n].Status = "CONFIRMED"))
    /\ [](\A n \in TbHooks :
            (tb[n].marked \/ tb[n].credited)
               => (tb[n].verified /\ tb[n].Status = "CONFIRMED"))

\* a verified AUTHORIZED notification for an order with a pending payment was
\* answered while the payment stayed pending
C36_Witness ==
    \E n \in TbHooks :
        /\ tb[n].pc = "ok" /\ tb[n].verified /\ tb[n].Status = "AUTHORIZED"
        /\ PendingTbankPayment(payments, tb[n].OrderId) # 0

\* C37: the refund of a failed download adds one to the pool the download was
\* debited from and leaves the other pool as it is, and is logged as +1
\* 'refund' after the -1 'download'
C37_RefundToDebitedPool ==
    [][(dl.pc = "refund" /\ dl'.pc = "refunded") =>
          /\ (dl.pool = "free" =>
                 /\ users'[dl.user].free_generations_left
                        = users[dl.user].free_generations_left + 1
                 /\ users'[dl.user].credits = users[dl.user].credits)
          /\ (dl.pool = "paid" =>
                 /\ users'[dl.user].credits = users[dl.user].credits + 1
                 /\ users'[dl.user].free_generations_left
                        = users[dl.user].free_generations_left)
          /\ \E i \in DOMAIN ledger :
                 /\ ledger[i] = [user |-> dl.user, delta |-> -1, tag |-> "download",
                                 gen |-> dl.gen]
                 /\ ledger'[Len(ledger')] = [user |-> dl.user, delta |-> 1,
                                             tag |-> "refund", gen |-> dl.gen]]_vars

\* C38: of the /start messages of one new account at most one adds the
\* referral bonus to an inviter, and none does when the code names the sender
C38_ReferralBonusOnce ==
    /\ Cardinality({s \in Starts : st[s].granted}) <= 1
    /\ \A s \in Starts : st[s].granted => st[s].referred_by \in Users

====
